---- MODULE Spec2Model ----
(***************************************************************************)
(* A model of streamlit_app.py, the Certificate of Analysis generator:     *)
(* the two-pass NumberedCanvas, the page decoration callback, the layout   *)
(* geometry, the column width fitter, the value formatters and the test    *)
(* row assembly.                                                           *)
(*                                                                         *)
(* Lengths are in points.  Python floats are modelled by exact rationals   *)
(* <<numerator, denominator>>; strings that the code inspects character by *)
(* character are sequences of one-character strings.                       *)
(***************************************************************************)
EXTENDS Integers, Sequences, FiniteSets, TLC

VARIABLES assets, frame_cap, clock, gen, cv, lists, doc, fit, sci, dat, asm, geo, story

vars == <<assets, frame_cap, clock, gen, cv, lists, doc, fit, sci, dat, asm, geo, story>>

(***************************************************************************)
(* Exact arithmetic standing for Python float arithmetic.                  *)
(***************************************************************************)
Abs(n) == IF n < 0 THEN -n ELSE n

RECURSIVE GCD(_, _)
GCD(a, b) == IF b = 0 THEN a ELSE GCD(b, a % b)

Rat(n, d) ==
    LET g == GCD(Abs(n), Abs(d))
        s == IF d < 0 THEN -1 ELSE 1
    IN  <<(s * n) \div g, (s * d) \div g>>

RInt(n) == <<n, 1>>
RAdd(a, b) == Rat(a[1] * b[2] + b[1] * a[2], a[2] * b[2])
RSub(a, b) == Rat(a[1] * b[2] - b[1] * a[2], a[2] * b[2])
RMul(a, b) == Rat(a[1] * b[1], a[2] * b[2])
RDiv(a, b) == Rat(a[1] * b[2], a[2] * b[1])
RLe(a, b) == a[1] * b[2] <= b[1] * a[2]
RLt(a, b) == a[1] * b[2] < b[1] * a[2]
RMin(a, b) == IF RLe(a, b) THEN a ELSE b
RIsZero(a) == a[1] = 0

RECURSIVE RSum(_)
RSum(s) == IF s = <<>> THEN RInt(0) ELSE RAdd(Head(s), RSum(Tail(s)))

(***************************************************************************)
(* Page constants (module level of streamlit_app.py).                      *)
(***************************************************************************)
inch == 72
PAGE_W == 612
PAGE_H == 792
MARGIN == RMul(Rat(125, 1000), RInt(inch))
VER_FONT_SIZE == 6
PAGE_FONT_SIZE == 6
DISC_FONT_SIZE == 6
FOOTER_RIGHT_X == RSub(RInt(PAGE_W), RMul(Rat(625, 1000), RInt(inch)))
VER_Y_ABS == RMul(Rat(45, 100), RInt(inch))
PAGE_Y_ABS == RMul(Rat(32, 100), RInt(inch))
DISC_X_ABS == RMul(Rat(125, 1000), RInt(inch))
DISC_Y_ABS == RMul(Rat(90, 100), RInt(inch))
DISC_WIDTH == RSub(RInt(PAGE_W), RMul(RInt(2), RMul(Rat(125, 1000), RInt(inch))))
DISC_WRAP_H == 300

(***************************************************************************)
(* Assets.  An image reader is <<width, height>> in pixels, or NoImage     *)
(* when _image_reader_or_none returned None.                               *)
(***************************************************************************)
NoImage == <<>>

\* scaled_h: 0 for an absent image, else the height scaled down (never up)
\* so that the width fits max_width.
ImageScale(img_ir, max_width) == RMin(RDiv(max_width, RInt(img_ir[1])), RInt(1))

scaled_h(img_ir, max_width) ==
    IF img_ir = NoImage THEN RInt(0)
    ELSE RMul(RInt(img_ir[2]), ImageScale(img_ir, max_width))

content_width == RSub(RInt(PAGE_W), RMul(RInt(2), MARGIN))

HEADER_GAP == 6
FOOTER_TEXT_BAND == 36

top_margin(header_h) ==
    RAdd(MARGIN, RAdd(header_h, RInt(IF RIsZero(header_h) THEN 0 ELSE HEADER_GAP)))

bottom_margin(footer_h) == RAdd(MARGIN, RAdd(footer_h, RInt(FOOTER_TEXT_BAND)))

\* BaseDocTemplate: width and height of the content frame.
doc_width == RSub(RSub(RInt(PAGE_W), MARGIN), MARGIN)
doc_height(tm, bm) == RSub(RSub(RInt(PAGE_H), tm), bm)

(***************************************************************************)
(* Drawing operations recorded in a canvas page (_code).                   *)
(***************************************************************************)
DrawOp(op, what, x, y, w, h, font) ==
    [op |-> op, what |-> what, x |-> x, y |-> y, w |-> w, h |-> h, font |-> font]

NoLen == RInt(0)

HeaderOps(header_ir) ==
    IF header_ir = NoImage THEN <<>>
    ELSE LET scale == ImageScale(header_ir, content_width)
             new_w == RMul(RInt(header_ir[1]), scale)
             new_h == RMul(RInt(header_ir[2]), scale)
         IN  <<DrawOp("drawImage", <<"header">>, MARGIN,
                      RSub(RSub(RInt(PAGE_H), MARGIN), new_h), new_w, new_h, 0)>>

FooterOps(footer_ir) ==
    IF footer_ir = NoImage THEN <<>>
    ELSE LET scale == ImageScale(footer_ir, content_width)
             new_w == RMul(RInt(footer_ir[1]), scale)
             new_h == RMul(RInt(footer_ir[2]), scale)
         IN  <<DrawOp("drawImage", <<"footer">>, MARGIN, MARGIN, new_w, new_h, 0)>>

DisclaimerOps(disclaimer_text) ==
    <<DrawOp("drawOn", <<"disclaimer", disclaimer_text>>, DISC_X_ABS, DISC_Y_ABS,
             DISC_WIDTH, RInt(DISC_WRAP_H), DISC_FONT_SIZE)>>

\* A decoration placed relative to the page being built instead of at an
\* absolute position.
on_page_relative(c, a) ==
    LET shift(o) == [o EXCEPT !.y = RSub(@, RInt(c.pageNumber - 1))]
        ops == HeaderOps(a.header_ir) \o FooterOps(a.footer_ir)
               \o DisclaimerOps(a.disclaimer_text)
    IN  [i \in 1..Len(ops) |-> shift(ops[i])]

\* on_page(c, doc_obj): what the page decoration callback draws on canvas c.
on_page(c, a) ==
    HeaderOps(a.header_ir) \o FooterOps(a.footer_ir) \o DisclaimerOps(a.disclaimer_text)

(***************************************************************************)
(* NumberedCanvas.  A canvas is the record of its instance attributes      *)
(* (__dict__); states is a reference into the heap of lists.  The pages a  *)
(* canvas has emitted live in its PDF document, doc.                       *)
(***************************************************************************)
Gens == {1, 2}

\* A page-state list shared by every canvas.
SharedStateList(g) == 1

\* __init__: self._saved_page_states = [] is a fresh list of the instance.
NewStateList(g) == g

Canvas_init(g, version_text, footer_h) ==
    [pageNumber |-> 1, code |-> <<>>, states |-> NewStateList(g),
     version_text |-> version_text, footer_h |-> footer_h]

getPageNumber(c) == c.pageNumber

\* Canvas._startPage: the next page number and empty accumulators.
StartPage(c) == [c EXCEPT !.pageNumber = @ + 1, !.code = <<>>]

\* dict(self.__dict__)
Snapshot(c) == c

\* A showPage that also emits the page, as the base class does.
ShowPageEmitting(c, heap, pages) ==
    [canvas |-> StartPage(c),
     heap |-> [heap EXCEPT ![c.states] = Append(@, Snapshot(c))],
     pages |-> Append(pages, c.code)]

\* NumberedCanvas.showPage: store the state, emit nothing, start a page.
NumberedCanvas_showPage(c, heap, pages) ==
    [canvas |-> StartPage(c),
     heap |-> [heap EXCEPT ![c.states] = Append(@, Snapshot(c))],
     pages |-> pages]

\* The page count taken one short.
TotalPagesShort(states) == Len(states) - 1

\* save: total_pages = len(self._saved_page_states)
TotalPages(states) == Len(states)

PageText(page_num, total_pages) == <<"Page", page_num, "of", total_pages>>

\* _draw_footer_numbers: the version line, then the page line.
draw_footer_numbers(c, total_pages) ==
    LET page_num == getPageNumber(c)
    IN  [c EXCEPT !.code = @ \o
          << DrawOp("drawRightString", <<"version", c.version_text>>,
                    FOOTER_RIGHT_X, VER_Y_ABS, NoLen, NoLen, VER_FONT_SIZE),
             DrawOp("drawRightString", PageText(page_num, total_pages),
                    FOOTER_RIGHT_X, PAGE_Y_ABS, NoLen, NoLen, PAGE_FONT_SIZE) >>]

\* A showPage that starts the next page without emitting the current one.
Canvas_showPage_silent(c, pages) == [canvas |-> StartPage(c), pages |-> pages]

\* Canvas.showPage of the base class: emit the page, start the next.
Canvas_showPage(c, pages) == [canvas |-> StartPage(c), pages |-> Append(pages, c.code)]

(***************************************************************************)
(* generate_coa_pdf_vector, one run per generation g.  doc.build drives    *)
(* the canvas: for each page the decoration callback, then flowables, then *)
(* showPage; after the last page, save.  Where a page breaks depends on    *)
(* the frame height and on font metrics: frame_cap is the number of story  *)
(* units that fit in the content frame, fixed for given assets.  Steps of  *)
(* two generations interleave freely; the generations are numbered in the  *)
(* order in which they start.                                              *)
(***************************************************************************)
MaxRows == 2
MaxClock == 1

InfoMaps == {"infoA", "infoB"}
HeaderImages == {NoImage, <<1188, 200>>}
FooterImages == {NoImage, <<297, 100>>}
FrameCapacities == {1, 2}

NoOutput == <<>>

IdleGen ==
    [pc |-> "idle", info |-> "", tests |-> 0, todo |-> 0, pageOpen |-> FALSE,
     showCalls |-> 0, total_pages |-> 0, idx |-> 0, stamp |-> 0, out |-> NoOutput]

IdleCanvas == [pageNumber |-> 0, code |-> <<>>, states |-> 0,
               version_text |-> "", footer_h |-> RInt(0)]

CanvasInit ==
    /\ assets \in [header_ir : HeaderImages, footer_ir : FooterImages,
                   disclaimer_text : {"DISCLAIMER"}, version_text : {"1.0"}]
    /\ frame_cap \in FrameCapacities
    /\ clock = 0
    /\ gen = [g \in Gens |-> IdleGen]
    /\ cv = [g \in Gens |-> IdleCanvas]
    /\ lists = [i \in Gens |-> <<>>]
    /\ doc = [g \in Gens |-> <<>>]

\* The wall clock moves on.  It is read only when a document is created,
\* so its ticks after the last creation are left out.
Tick ==
    /\ clock < MaxClock
    /\ \E g \in Gens : gen[g].pc = "idle"
    /\ clock' = clock + 1
    /\ UNCHANGED <<story, assets, frame_cap, gen, cv, lists, doc, fit, sci, dat, asm, geo>>

\* The story: one unit for the fixed sections, then one per test row.
StoryUnits(tests) == 1 + tests

\* The PDF document stamps itself with the time of its creation.
DocTimeStamp(now) == now

\* generate_coa_pdf_vector up to the start of doc.build: the assets are
\* read, the geometry computed, the document and its canvas created.
Generate(g, info, tests) ==
    /\ gen[g].pc = "idle"
    /\ \A h \in Gens : h < g => gen[h].pc # "idle"
    /\ LET footer_h == scaled_h(assets.footer_ir, content_width)
       IN  /\ cv' = [cv EXCEPT ![g] = Canvas_init(g, assets.version_text, footer_h)]
           /\ lists' = [lists EXCEPT ![NewStateList(g)] = <<>>]
    /\ gen' = [gen EXCEPT ![g] = [IdleGen EXCEPT !.pc = "layout", !.info = info,
                                  !.tests = tests, !.todo = StoryUnits(tests),
                                  !.stamp = DocTimeStamp(clock)]]
    /\ doc' = [doc EXCEPT ![g] = <<>>]
    /\ UNCHANGED <<story, assets, frame_cap, clock, fit, sci, dat, asm, geo>>

\* handle_pageBegin: the page template calls on_page on the open canvas.
PageBegin(g) ==
    /\ gen[g].pc = "layout"
    /\ ~gen[g].pageOpen
    /\ gen[g].todo > 0
    /\ cv' = [cv EXCEPT ![g].code = @ \o on_page(cv[g], assets)]
    /\ gen' = [gen EXCEPT ![g].pageOpen = TRUE]
    /\ UNCHANGED <<story, assets, frame_cap, clock, lists, doc, fit, sci, dat, asm, geo>>

\* The unit of the story that is laid out next.
NextUnit(g) == StoryUnits(gen[g].tests) - gen[g].todo + 1

FlowWhat(g, unit) == IF unit = 1 THEN <<"sections", gen[g].info>> ELSE <<"row", unit - 1>>

IsFlow(o) == o.op = "flow"
FlowCount(code) == Len(SelectSeq(code, IsFlow))

\* A flowable is drawn in the content frame of the open page.
DrawFlowable(g) ==
    /\ gen[g].pc = "layout"
    /\ gen[g].pageOpen
    /\ gen[g].todo > 0
    /\ FlowCount(cv[g].code) < frame_cap
    /\ cv' = [cv EXCEPT ![g].code =
                Append(@, DrawOp("flow", FlowWhat(g, NextUnit(g)),
                                 NoLen, NoLen, NoLen, NoLen, 0))]
    /\ gen' = [gen EXCEPT ![g].todo = @ - 1]
    /\ UNCHANGED <<story, assets, frame_cap, clock, lists, doc, fit, sci, dat, asm, geo>>

\* handle_pageEnd: the page is full, or the story is over: canv.showPage().
ShowPage(g) ==
    /\ gen[g].pc = "layout"
    /\ gen[g].pageOpen
    /\ gen[g].todo = 0 \/ FlowCount(cv[g].code) = frame_cap
    /\ LET r == NumberedCanvas_showPage(cv[g], lists, doc[g])
       IN  /\ cv' = [cv EXCEPT ![g] = r.canvas]
           /\ lists' = r.heap
           /\ doc' = [doc EXCEPT ![g] = r.pages]
    /\ gen' = [gen EXCEPT ![g].pageOpen = FALSE, ![g].showCalls = @ + 1]
    /\ UNCHANGED <<story, assets, frame_cap, clock, fit, sci, dat, asm, geo>>

\* _endBuild calls canv.save(): save takes the page count.
SaveBegin(g) ==
    /\ gen[g].pc = "layout"
    /\ ~gen[g].pageOpen
    /\ gen[g].todo = 0
    /\ gen' = [gen EXCEPT ![g].pc = "finalizing",
                          ![g].total_pages = TotalPages(lists[cv[g].states]),
                          ![g].idx = 1]
    /\ UNCHANGED <<story, assets, frame_cap, clock, cv, lists, doc, fit, sci, dat, asm, geo>>

\* One turn of save's loop: restore a state, draw its footer, emit the page.
SaveStep(g) ==
    /\ gen[g].pc = "finalizing"
    /\ gen[g].idx <= Len(lists[cv[g].states])
    /\ LET state == lists[cv[g].states][gen[g].idx]
           restored == state
           drawn == draw_footer_numbers(restored, gen[g].total_pages)
           r == Canvas_showPage(drawn, doc[g])
       IN  /\ cv' = [cv EXCEPT ![g] = r.canvas]
           /\ doc' = [doc EXCEPT ![g] = r.pages]
    /\ gen' = [gen EXCEPT ![g].idx = @ + 1]
    /\ UNCHANGED <<story, assets, frame_cap, clock, lists, fit, sci, dat, asm, geo>>

RenderedDocument(pages, created) == [pages |-> pages, created |-> created]

\* The loop is over: Canvas.save (a showPage if the page holds anything,
\* then the document is written) and the bytes are returned.
SaveEnd(g) ==
    /\ gen[g].pc = "finalizing"
    /\ gen[g].idx > Len(lists[cv[g].states])
    /\ IF cv[g].code # <<>>
       THEN LET r == NumberedCanvas_showPage(cv[g], lists, doc[g])
            IN  /\ cv' = [cv EXCEPT ![g] = r.canvas]
                /\ lists' = r.heap
                /\ doc' = [doc EXCEPT ![g] = r.pages]
                /\ gen' = [gen EXCEPT ![g].pc = "done",
                              ![g].out = RenderedDocument(r.pages, gen[g].stamp)]
       ELSE /\ UNCHANGED <<cv, lists, doc>>
            /\ gen' = [gen EXCEPT ![g].pc = "done",
                          ![g].out = RenderedDocument(doc[g], gen[g].stamp)]
    /\ UNCHANGED <<story, assets, frame_cap, clock, fit, sci, dat, asm, geo>>

IdleFit == [pc |-> "off", widths |-> <<>>, max_width |-> 0, out |-> <<>>]
IdleSci == [pc |-> "off", val |-> <<>>, out |-> <<>>]
IdleDat == [pc |-> "off", s |-> <<>>, parsed |-> <<>>, out |-> <<>>, raised |-> FALSE]
IdleAsm == [pc |-> "off", form_values |-> <<>>, edits |-> 0, tests |-> <<>>]
IdleGeo == [pc |-> "off", header_ir |-> NoImage, footer_ir |-> NoImage,
            top |-> RInt(0), bottom |-> RInt(0), width |-> RInt(0), height |-> RInt(0)]

\* No story is built: the field map and the rows are not looked at.
IdleStory == [pc |-> "off", to_datetime |-> <<>>, info |-> <<>>, tests |-> <<>>,
              ci_cells |-> <<>>, pi_cells |-> <<>>, tp_data |-> <<>>]

Init ==
    /\ CanvasInit
    /\ fit = IdleFit /\ sci = IdleSci /\ dat = IdleDat /\ asm = IdleAsm /\ geo = IdleGeo /\ story = IdleStory

Next ==
    \/ Tick
    \/ \E g \in Gens, info \in InfoMaps, tests \in 0..MaxRows : Generate(g, info, tests)
    \/ \E g \in Gens : PageBegin(g)
    \/ \E g \in Gens : DrawFlowable(g)
    \/ \E g \in Gens : ShowPage(g)
    \/ \E g \in Gens : SaveBegin(g)
    \/ \E g \in Gens : SaveStep(g)
    \/ \E g \in Gens : SaveEnd(g)

Spec == Init /\ [][Next]_vars

\* save is straight-line code around a for loop over a finite list, and
\* doc.build calls it once the story is laid out: a generation that can
\* take a step of save does take it.
SpecFair == Spec /\ \A g \in Gens : WF_vars(SaveStep(g) \/ SaveEnd(g))

\* The canvas variables of a specification that runs no generation.
CanvasOff ==
    /\ assets = [header_ir |-> NoImage, footer_ir |-> NoImage,
                 disclaimer_text |-> "DISCLAIMER", version_text |-> "1.0"]
    /\ frame_cap = 1
    /\ clock = 0
    /\ gen = [g \in Gens |-> IdleGen]
    /\ cv = [g \in Gens |-> IdleCanvas]
    /\ lists = [i \in Gens |-> <<>>]
    /\ doc = [g \in Gens |-> <<>>]

(***************************************************************************)
(* _fit_col_widths, applied to width lists and maximal widths drawn from   *)
(* small sets.  Widths are exact rationals.                                *)
(***************************************************************************)
MaxCols == 3
MaxWidth == 3
MaxTotal == 4

WidthValues == -1..MaxWidth
TotalValues == -2..MaxTotal

ScaleAll(widths, scale) == [i \in 1..Len(widths) |-> RMul(widths[i], scale)]

\* The scale taken upside down.
fit_col_widths_inverted(widths, max_width) ==
    LET total == RSum(widths)
    IN  IF RLe(total, RInt(0)) THEN widths
        ELSE IF RLe(total, max_width) THEN widths
        ELSE ScaleAll(widths, RDiv(total, max_width))

fit_col_widths(widths, max_width) ==
    LET total == RSum(widths)
    IN  IF RLe(total, RInt(0)) THEN widths
        ELSE IF RLe(total, max_width) THEN widths
        ELSE ScaleAll(widths, RDiv(max_width, total))

FitInit ==
    /\ CanvasOff
    /\ \E n \in 0..MaxCols, ws \in [1..MaxCols -> WidthValues], m \in TotalValues :
          fit = [pc |-> "ready", widths |-> [i \in 1..n |-> RInt(ws[i])],
                 max_width |-> RInt(m), out |-> <<>>]
    /\ sci = IdleSci /\ dat = IdleDat /\ asm = IdleAsm /\ geo = IdleGeo /\ story = IdleStory

FitCall ==
    /\ fit.pc = "ready"
    /\ fit' = [fit EXCEPT !.pc = "done", !.out = fit_col_widths(fit.widths, fit.max_width)]
    /\ UNCHANGED <<story, assets, frame_cap, clock, gen, cv, lists, doc, sci, dat, asm, geo>>

FitNext == FitCall

SpecFit == FitInit /\ [][FitNext]_vars

(***************************************************************************)
(* The layout geometry of generate_coa_pdf_vector for header and footer    *)
(* images of several sizes, absent ones included.                          *)
(***************************************************************************)
ImageWidths == {297, 594, 1188}
ImageHeights == {50, 100, 400, 800}
GeoImages == {NoImage} \cup (ImageWidths \X ImageHeights)

GeoInit ==
    /\ CanvasOff
    /\ \E h \in GeoImages, f \in GeoImages :
          geo = [IdleGeo EXCEPT !.pc = "ready", !.header_ir = h, !.footer_ir = f]
    /\ fit = IdleFit /\ sci = IdleSci /\ dat = IdleDat /\ asm = IdleAsm
    /\ story = IdleStory

\* Lines 245 to 272: the bands, the margins and the content frame.
ComputeGeometry ==
    /\ geo.pc = "ready"
    /\ LET header_h == scaled_h(geo.header_ir, content_width)
           footer_h == scaled_h(geo.footer_ir, content_width)
           tm == top_margin(header_h)
           bm == bottom_margin(footer_h)
       IN  geo' = [geo EXCEPT !.pc = "done", !.top = tm, !.bottom = bm,
                              !.width = doc_width, !.height = doc_height(tm, bm)]
    /\ UNCHANGED <<story, assets, frame_cap, clock, gen, cv, lists, doc, fit, sci, dat, asm>>

GeoNext == ComputeGeometry

SpecGeo == GeoInit /\ [][GeoNext]_vars

(***************************************************************************)
(* Strings as sequences of characters, and the parts of Python's str and   *)
(* float that the formatters use.                                          *)
(***************************************************************************)
Digits == {"0", "1", "2", "3", "4", "5", "6", "7", "8", "9"}

DigitVal(c) ==
    CASE c = "0" -> 0 [] c = "1" -> 1 [] c = "2" -> 2 [] c = "3" -> 3 [] c = "4" -> 4
      [] c = "5" -> 5 [] c = "6" -> 6 [] c = "7" -> 7 [] c = "8" -> 8 [] c = "9" -> 9

DigitChar(d) == <<"0", "1", "2", "3", "4", "5", "6", "7", "8", "9">>[d + 1]

IsSpace(c) == c = " "

RECURSIVE LStrip(_)
LStrip(s) == IF s # <<>> /\ IsSpace(Head(s)) THEN LStrip(Tail(s)) ELSE s

RECURSIVE RStrip(_)
RStrip(s) ==
    IF s # <<>> /\ IsSpace(s[Len(s)]) THEN RStrip(SubSeq(s, 1, Len(s) - 1)) ELSE s

\* str.strip()
Strip(s) == RStrip(LStrip(s))

NotComma(c) == c # ","

\* s.replace(",", "")
RemoveCommas(s) == SelectSeq(s, NotComma)

RECURSIVE Pow10(_)
Pow10(e) == IF e = 0 THEN 1 ELSE 10 * Pow10(e - 1)

RECURSIVE DigitsValue(_)
DigitsValue(ds) ==
    IF ds = <<>> THEN 0 ELSE 10 * DigitsValue(SubSeq(ds, 1, Len(ds) - 1)) + DigitVal(ds[Len(ds)])

IsDigit(c) == c \in Digits
IsDot(c) == c = "."

ValueError == [ok |-> FALSE, value |-> RInt(0)]

\* float(t) for t made of blanks, a minus sign, digits and a decimal
\* point: blanks around the number are skipped; the number is an optional
\* sign, then digits with at most one point and at least one digit.
\* Anything else is a ValueError.
ParseFloat(t) ==
    LET u == Strip(t)
        neg == u # <<>> /\ u[1] = "-"
        body == IF neg THEN Tail(u) ELSE u
        ds == SelectSeq(body, IsDigit)
        dots == SelectSeq(body, IsDot)
        point == IF dots = <<>> THEN Len(body) + 1
                 ELSE CHOOSE i \in 1..Len(body) : body[i] = "."
        frac == IF dots = <<>> THEN 0 ELSE Len(body) - point
    IN  IF /\ ds # <<>>
           /\ Len(dots) <= 1
           /\ Len(ds) + Len(dots) = Len(body)
        THEN [ok |-> TRUE,
              value |-> Rat((IF neg THEN -1 ELSE 1) * DigitsValue(ds), Pow10(frac))]
        ELSE ValueError

RAbs(a) == <<Abs(a[1]), a[2]>>

\* The decimal exponent of a rational of absolute value at least 1.
RECURSIVE Exponent10(_, _)
Exponent10(a, e) ==
    IF RLt(a, RInt(Pow10(e + 1))) THEN e ELSE Exponent10(a, e + 1)

\* The integer nearest to a non-negative rational, ties to even.
RoundHalfEven(a) ==
    LET q == a[1] \div a[2]
        twice == 2 * (a[1] % a[2])
    IN  IF twice > a[2] THEN q + 1
        ELSE IF twice < a[2] THEN q
        ELSE IF q % 2 = 0 THEN q ELSE q + 1

\* f"{f:.1E}" for |f| >= 1: sign, one digit, a point, one digit, "E+" and
\* the exponent on two digits at least.
FormatSci1(f) ==
    LET a == RAbs(f)
        e0 == Exponent10(a, 0)
        m0 == RoundHalfEven(RMul(a, Rat(10, Pow10(e0))))
        e == IF m0 = 100 THEN e0 + 1 ELSE e0
        m == IF m0 = 100 THEN 10 ELSE m0
        sign == IF f[1] < 0 THEN <<"-">> ELSE <<>>
        expo == IF e < 10 THEN <<"0", DigitChar(e)>>
                ELSE <<DigitChar(e \div 10), DigitChar(e % 10)>>
    IN  sign \o <<DigitChar(m \div 10), ".", DigitChar(m % 10), "E", "+">> \o expo

SCI_THRESHOLD == 1000

\* The threshold taken exclusive.
sci_if_needed_exclusive(val) ==
    LET s == Strip(val)
        f == ParseFloat(RemoveCommas(s))
    IN  IF s = <<>> THEN s
        ELSE IF ~f.ok THEN s
        ELSE IF RLt(RInt(SCI_THRESHOLD), RAbs(f.value)) THEN FormatSci1(f.value)
        ELSE s

\* _sci_if_needed for a string val.
sci_if_needed(val) ==
    LET s == Strip(val)
        f == ParseFloat(RemoveCommas(s))
    IN  IF s = <<>> THEN s
        ELSE IF ~f.ok THEN s
        ELSE IF RLe(RInt(SCI_THRESHOLD), RAbs(f.value)) THEN FormatSci1(f.value)
        ELSE s

MaxStrLen == 5
Alphabet == {" ", ",", "-", ".", "a", "0", "1", "9"}

SciInit ==
    /\ CanvasOff
    /\ \E n \in 0..MaxStrLen, v \in [1..MaxStrLen -> Alphabet] :
          sci = [pc |-> "ready", val |-> [i \in 1..n |-> v[i]], out |-> <<>>]
    /\ fit = IdleFit /\ dat = IdleDat /\ asm = IdleAsm /\ geo = IdleGeo /\ story = IdleStory

SciCall ==
    /\ sci.pc = "ready"
    /\ sci' = [sci EXCEPT !.pc = "done", !.out = sci_if_needed(sci.val)]
    /\ UNCHANGED <<story, assets, frame_cap, clock, gen, cv, lists, doc, fit, dat, asm, geo>>

SciNext == SciCall

SpecSci == SciInit /\ [][SciNext]_vars

(***************************************************************************)
(* _normalize_date_str.  pd.to_datetime is a library call: what it makes   *)
(* of a string is chosen freely among a time stamp within the range of     *)
(* pd.Timestamp, NaT (errors="coerce") and an exception.                   *)
(***************************************************************************)
NaT == [kind |-> "NaT", year |-> 0, month |-> 0, day |-> 0]
Raises == [kind |-> "raises", year |-> 0, month |-> 0, day |-> 0]
Timestamp(y, m, d) == [kind |-> "Timestamp", year |-> y, month |-> m, day |-> d]

Years == {1677, 1999, 2024, 2262}
Months == 1..12
Days == {1, 9, 10, 28}

ParseOutcomes == {NaT, Raises} \cup {Timestamp(y, m, d) : y \in Years, m \in Months, d \in Days}

DateInputs ==
    { <<>>, <<" ">>,
      <<"0", "3", "/", "1", "4", "/", "2", "0", "2", "4">>,
      <<"2", "0", "2", "4", "-", "0", "3", "-", "1", "4">>,
      <<"n", "o", "t", " ", "a", " ", "d", "a", "t", "e">> }

\* A number on at least width digits, zero padded.
RECURSIVE ZeroPad(_, _)
ZeroPad(n, width) ==
    IF width <= 1 /\ n < 10 THEN <<DigitChar(n)>>
    ELSE Append(ZeroPad(n \div 10, width - 1), DigitChar(n % 10))

\* dt.strftime("%Y-%m-%d")
StrftimeYmd(dt) ==
    ZeroPad(dt.year, 4) \o <<"-">> \o ZeroPad(dt.month, 2) \o <<"-">> \o ZeroPad(dt.day, 2)

Returned(value) == [out |-> value, raised |-> FALSE]
Propagated == [out |-> <<>>, raised |-> TRUE]

\* The body without its try/except: an exception of the parser escapes.
normalize_date_str_unguarded(s, parsed) ==
    IF s = <<>> THEN Returned(s)
    ELSE IF parsed.kind = "raises" THEN Propagated
    ELSE IF parsed.kind = "NaT" THEN Returned(s)
    ELSE Returned(StrftimeYmd(parsed))

\* _normalize_date_str(s), parsed being what pd.to_datetime makes of s.
normalize_date_str(s, parsed) ==
    IF s = <<>> THEN Returned(s)
    ELSE IF parsed.kind = "raises" THEN Returned(s)
    ELSE IF parsed.kind = "NaT" THEN Returned(s)
    ELSE Returned(StrftimeYmd(parsed))

DatInit ==
    /\ CanvasOff
    /\ \E s \in DateInputs, p \in ParseOutcomes :
          dat = [pc |-> "ready", s |-> s, parsed |-> p, out |-> <<>>, raised |-> FALSE]
    /\ fit = IdleFit /\ sci = IdleSci /\ asm = IdleAsm /\ geo = IdleGeo /\ story = IdleStory

DatCall ==
    /\ dat.pc = "ready"
    /\ LET r == normalize_date_str(dat.s, dat.parsed)
       IN  dat' = [dat EXCEPT !.pc = "done", !.out = r.out, !.raised = r.raised]
    /\ UNCHANGED <<story, assets, frame_cap, clock, gen, cv, lists, doc, fit, sci, asm, geo>>

DatNext == DatCall

SpecDat == DatInit /\ [][DatNext]_vars

(***************************************************************************)
(* assemble_test_data.  The form is filled field by field; a key is the    *)
(* pair of a field name and a row index, standing for f"{name}{idx}".      *)
(* The form starts either with no key or, as main() builds it, with every  *)
(* key holding the empty string; edits counts the fields filled in.        *)
(***************************************************************************)
NumGroups == 8
MaxEdits == 2

FormFields == <<"property", "testMethod", "unit", "lowerLimit", "upperLimit", "result">>
FormKeys == {<<FormFields[f], i>> : f \in 1..Len(FormFields), i \in 1..NumGroups}
FormInputs == { <<" ">>, <<" ", "a">> }

EmptyString == <<>>

\* form_values.get(key, "")
Get(form_values, key) ==
    IF key \in DOMAIN form_values THEN form_values[key] ELSE EmptyString

Entry(form_values, idx) ==
    [property |-> Strip(Get(form_values, <<"property", idx>>)),
     test_method |-> Strip(Get(form_values, <<"testMethod", idx>>)),
     unit |-> Strip(Get(form_values, <<"unit", idx>>)),
     lower_limit |-> Strip(Get(form_values, <<"lowerLimit", idx>>)),
     upper_limit |-> Strip(Get(form_values, <<"upperLimit", idx>>)),
     result |-> Strip(Get(form_values, <<"result", idx>>))]

\* any(entry.values())
AnyValue(entry) == \E k \in DOMAIN entry : entry[k] # EmptyString

RECURSIVE AssembleFrom(_, _, _)
AssembleFrom(form_values, idx, last) ==
    IF idx > last THEN <<>>
    ELSE LET entry == Entry(form_values, idx)
         IN  (IF AnyValue(entry) THEN <<entry>> ELSE <<>>)
             \o AssembleFrom(form_values, idx + 1, last)

\* The loop stopping one row short.
assemble_test_data_short(form_values) == AssembleFrom(form_values, 1, NumGroups - 1)

\* assemble_test_data: for idx in range(1, 9).
assemble_test_data(form_values) == AssembleFrom(form_values, 1, NumGroups)

NoKeys == [k \in {} |-> EmptyString]
AllKeysEmpty == [k \in FormKeys |-> EmptyString]

AsmInit ==
    /\ CanvasOff
    /\ \E base \in {NoKeys, AllKeysEmpty} :
          asm = [pc |-> "editing", form_values |-> base, edits |-> 0, tests |-> <<>>]
    /\ fit = IdleFit /\ sci = IdleSci /\ dat = IdleDat /\ geo = IdleGeo /\ story = IdleStory

\* vals[key] = st.text_input(...): the user fills a field in.
SetField(key, value) ==
    /\ asm.pc = "editing"
    /\ asm.edits < MaxEdits
    /\ Get(asm.form_values, key) = EmptyString
    /\ asm' = [asm EXCEPT !.form_values = (key :> value) @@ asm.form_values,
                          !.edits = @ + 1]
    /\ UNCHANGED <<story, assets, frame_cap, clock, gen, cv, lists, doc, fit, sci, dat, geo>>

\* tests = assemble_test_data(vals)
Assemble ==
    /\ asm.pc = "editing"
    /\ asm' = [asm EXCEPT !.pc = "assembled", !.tests = assemble_test_data(asm.form_values)]
    /\ UNCHANGED <<story, assets, frame_cap, clock, gen, cv, lists, doc, fit, sci, dat, geo>>

AsmNext ==
    \/ \E key \in FormKeys, value \in FormInputs : SetField(key, value)
    \/ Assemble

SpecAsm == AsmInit /\ [][AsmNext]_vars

(***************************************************************************)
(* The story of generate_coa_pdf_vector: the cells of the customer table,  *)
(* of the product table and of the table of tested properties, built from  *)
(* a field map and a list of rows.  Texts are sequences of characters.     *)
(* pd.to_datetime is a function of its argument that the library fixes:    *)
(* to_datetime is what it makes of each text.                              *)
(***************************************************************************)
MaxInfoKeys == 2
MaxTests == 1

DATE_KEYS == {"orderDate", "shippedDate", "manufacturingDate", "expirationDate",
              "testDate", "printDate"}

\* The upper-case letters and their lower-case forms
LowerOf ==
    ("A" :> "a") @@ ("B" :> "b") @@ ("C" :> "c") @@ ("D" :> "d") @@ ("E" :> "e") @@ ("F" :> "f")
    @@ ("G" :> "g") @@ ("H" :> "h") @@ ("I" :> "i") @@ ("J" :> "j") @@ ("K" :> "k") @@ ("L" :> "l")
    @@ ("M" :> "m") @@ ("N" :> "n") @@ ("O" :> "o") @@ ("P" :> "p") @@ ("Q" :> "q") @@ ("R" :> "r")
    @@ ("S" :> "s") @@ ("T" :> "t") @@ ("U" :> "u") @@ ("V" :> "v") @@ ("W" :> "w") @@ ("X" :> "x")
    @@ ("Y" :> "y") @@ ("Z" :> "z")

\* str.lower(), one character
LowerChar(c) == IF c \in DOMAIN LowerOf THEN LowerOf[c] ELSE c

\* str.lower()
Lower(s) == [i \in 1..Len(s) |-> LowerChar(s[i])]

\* sub in s
Contains(sub, s) ==
    \E i \in 1..(Len(s) - Len(sub) + 1) : SubSeq(s, i, i + Len(sub) - 1) = sub

customer_info_rows(info) ==
    << << <<"C", "u", "s", "t", "o", "m", "e", "r", " ", "N", "a", "m", "e">>,
          Get(info, "customerName"),
          <<"A", "c", "c", "o", "u", "n", "t", " ", "N", "u", "m", "b", "e", "r">>,
          Get(info, "accountNumber") >>,
       << <<"C", "u", "s", "t", "o", "m", "e", "r", " ", "P", "O", " ", "N", "u", "m", "b", "e", "r">>,
          Get(info, "poNumber"),
          <<"S", "u", "p", "p", "l", "i", "e", "r", " ", "Q", "u", "o", "t", "e", " ", "N", "u", "m", "b", "e", "r">>,
          Get(info, "quoteNumber") >>,
       << <<"O", "r", "d", "e", "r", " ", "D", "a", "t", "e">>,
          Get(info, "orderDate"),
          <<"Q", "u", "a", "n", "t", "i", "t", "y", " ", "S", "h", "i", "p", "p", "e", "d">>,
          Get(info, "quantityShipped") >>,
       << <<"S", "h", "i", "p", "p", "e", "d", " ", "D", "a", "t", "e">>,
          Get(info, "shippedDate"),
          <<"S", "h", "i", "p", "p", "e", "d", " ", "T", "o", " ", "L", "o", "c", "a", "t", "i", "o", "n">>,
          Get(info, "shippedLocation") >> >>

product_info_rows(info) ==
    << << <<"I", "t", "e", "m", " ", "N", "a", "m", "e">>,
          Get(info, "itemName"),
          <<"I", "t", "e", "m", " ", "S", "K", "U">>,
          Get(info, "itemSKU") >>,
       << <<"L", "o", "t", " ", "N", "u", "m", "b", "e", "r">>,
          Get(info, "lotNumber"),
          <<"M", "a", "n", "u", "f", "a", "c", "t", "u", "r", "i", "n", "g", " ", "L", "o", "c", "a", "t", "i", "o", "n">>,
          Get(info, "manufacturingLocation") >>,
       << <<"M", "a", "n", "u", "f", "a", "c", "t", "u", "r", "i", "n", "g", " ", "D", "a", "t", "e">>,
          Get(info, "manufacturingDate"),
          <<"T", "e", "s", "t", " ", "D", "a", "t", "e">>,
          Get(info, "testDate") >>,
       << <<"E", "x", "p", "i", "r", "a", "t", "i", "o", "n", " ", "D", "a", "t", "e">>,
          Get(info, "expirationDate"),
          <<"C", "e", "r", "t", "i", "f", "i", "c", "a", "t", "e", " ", "P", "r", "i", "n", "t", " ", "D", "a", "t", "e">>,
          Get(info, "printDate") >> >>

\* _normalize_date_str(v), pd.to_datetime being the function to_datetime
NormalizeWith(to_datetime, v) ==
    normalize_date_str(v, IF v \in DOMAIN to_datetime THEN to_datetime[v] ELSE NaT).out

\* One turn of the loop over customer_info_rows
ci_row(row, to_datetime) ==
    LET l1 == row[1]
        v1 == row[2]
        l2 == row[3]
        v2 == row[4]
        kv1 == IF Contains(<<"o", "r", "d", "e", "r">>, Lower(l1))
                  \/ Contains(<<"s", "h", "i", "p", "p", "e", "d">>, Lower(l1))
               THEN NormalizeWith(to_datetime, v1) ELSE v1
        kv2 == IF Contains(<<"q", "u", "o", "t", "e">>, Lower(l2)) = FALSE
                  /\ Contains(<<"s", "h", "i", "p", "p", "e", "d">>, Lower(l2))
               THEN NormalizeWith(to_datetime, v2) ELSE v2
    IN  <<l1, kv1, l2, kv2>>

ci_cells(info, to_datetime) ==
    [i \in 1..Len(customer_info_rows(info)) |->
        ci_row(customer_info_rows(info)[i], to_datetime)]

DateLabelParts ==
    { <<"m", "a", "n", "u", "f", "a", "c", "t", "u", "r", "i", "n", "g", " ", "d", "a", "t", "e">>,
      <<"e", "x", "p", "i", "r", "a", "t", "i", "o", "n">>,
      <<"t", "e", "s", "t", " ", "d", "a", "t", "e">>,
      <<"p", "r", "i", "n", "t", " ", "d", "a", "t", "e">> }

is_date(label) == \E k \in DateLabelParts : Contains(k, Lower(label))

\* One turn of the loop over product_info_rows
pi_row(row, to_datetime) ==
    LET l1 == row[1]
        v1 == row[2]
        l2 == row[3]
        v2 == row[4]
        kv1 == IF is_date(l1) THEN NormalizeWith(to_datetime, v1) ELSE v1
        kv2 == IF is_date(l2) THEN NormalizeWith(to_datetime, v2) ELSE v2
    IN  <<l1, kv1, l2, kv2>>

pi_cells(info, to_datetime) ==
    [i \in 1..Len(product_info_rows(info)) |->
        pi_row(product_info_rows(info)[i], to_datetime)]

TP_HEADER == <<"PROPERTY", "TEST METHOD", "UNIT", "LOWER LIMIT", "UPPER LIMIT", "RESULT">>

\* A row of the table with every cell formatted by magnitude
tp_row_all_sci(t) ==
    << sci_if_needed(Get(t, "property")),
       sci_if_needed(Get(t, "test_method")),
       sci_if_needed(Get(t, "unit")),
       sci_if_needed(Get(t, "lower_limit")),
       sci_if_needed(Get(t, "upper_limit")),
       sci_if_needed(Get(t, "result")) >>

\* tp_data.append([...]) for one test row
tp_row(t) ==
    << Get(t, "property"),
       Get(t, "test_method"),
       Get(t, "unit"),
       sci_if_needed(Get(t, "lower_limit")),
       sci_if_needed(Get(t, "upper_limit")),
       sci_if_needed(Get(t, "result")) >>

tp_data(tests) == <<TP_HEADER>> \o [i \in 1..Len(tests) |-> tp_row(tests[i])]

InfoKeys ==
    {"customerName", "accountNumber", "poNumber", "quoteNumber", "orderDate",
     "quantityShipped", "shippedDate", "shippedLocation", "itemName", "itemSKU",
     "lotNumber", "manufacturingLocation", "manufacturingDate", "testDate",
     "expirationDate", "printDate"}

InfoValues == { <<"2", "0", "0", "0">> }

\* What pd.to_datetime can make of a text
StoryOutcomes == {NaT, Raises, Timestamp(2000, 1, 1)}

\* The field maps: at most MaxInfoKeys keys are present
InfoInputs ==
    UNION { [ks -> InfoValues] : ks \in {x \in SUBSET InfoKeys : Cardinality(x) <= MaxInfoKeys} }

TestKeys == {"property", "test_method", "unit", "lower_limit", "upper_limit", "result"}

BigNumber == <<"1", "5", "0", "0">>
PaddedText == <<" ", "a">>

\* The rows: one text is a big number and the others a padded word, or the
\* row has no key at all
TestRowInputs ==
    {NoKeys} \cup { [k \in TestKeys |-> IF k = big THEN BigNumber ELSE PaddedText] :
                      big \in TestKeys }

RECURSIVE SeqsUpTo(_, _)
SeqsUpTo(S, n) ==
    IF n = 0 THEN {<<>>}
    ELSE LET shorter == SeqsUpTo(S, n - 1)
         IN  shorter \cup {Append(q, x) : q \in shorter, x \in S}

StoryInit ==
    /\ CanvasOff
    /\ fit = IdleFit /\ sci = IdleSci /\ dat = IdleDat /\ asm = IdleAsm /\ geo = IdleGeo
    /\ \E td \in [InfoValues -> StoryOutcomes], info \in InfoInputs,
          tests \in SeqsUpTo(TestRowInputs, MaxTests) :
          story = [IdleStory EXCEPT !.pc = "input", !.to_datetime = td,
                                    !.info = info, !.tests = tests]

\* Lines 331 to 418: the three tables of the story are built.
BuildStory ==
    /\ story.pc = "input"
    /\ story' = [story EXCEPT !.pc = "built",
                              !.ci_cells = ci_cells(story.info, story.to_datetime),
                              !.pi_cells = pi_cells(story.info, story.to_datetime),
                              !.tp_data = tp_data(story.tests)]
    /\ UNCHANGED <<assets, frame_cap, clock, gen, cv, lists, doc, fit, sci, dat, asm, geo>>

StoryNext == BuildStory

SpecStory == StoryInit /\ [][StoryNext]_vars

(***************************************************************************)
(* Properties of the canvas and of a generation.                           *)
(***************************************************************************)
IsPageLine(o) == o.op = "drawRightString" /\ o.what[1] = "Page"
IsFooterText(o) == o.op = "drawRightString"
IsDecoration(o) == o.op \in {"drawImage", "drawOn"}

PageLines(code) == SelectSeq(code, IsPageLine)
Decorations(code) == SelectSeq(code, IsDecoration)

StatesOf(g) == lists[cv[g].states]

PageCodes(g) ==
    doc[g] \o [i \in 1..Len(StatesOf(g)) |-> StatesOf(g)[i].code]
           \o (IF gen[g].pc = "layout" /\ gen[g].pageOpen THEN <<cv[g].code>> ELSE <<>>)

\* C2: the header image, the footer image and the disclaimer are drawn at
\* the same coordinates and sizes on every page of every generation that
\* uses the same assets, whatever its field map, rows and page count.
C2_DecorationStable ==
    \A g, h \in Gens :
        gen[g].pc # "idle" /\ gen[h].pc # "idle" =>
            \A i \in 1..Len(PageCodes(g)), j \in 1..Len(PageCodes(h)) :
                Decorations(PageCodes(g)[i]) = Decorations(PageCodes(h)[j])

\* Two finished documents of different field maps and lengths, one of them
\* of one page and the other of three, with a header image.
C2_Witness ==
    /\ assets.header_ir # NoImage
    /\ gen[1].pc = "done" /\ gen[2].pc = "done"
    /\ gen[1].info # gen[2].info
    /\ Len(doc[1]) = 1 /\ Len(doc[2]) = 3
    /\ Len(Decorations(doc[2][3])) = 3

\* C3: two generations with identical field map, rows and assets return
\* identical bytes, whenever they run.
C3_SameInputsSameBytes ==
    \A g, h \in Gens :
        /\ gen[g].pc = "done" /\ gen[h].pc = "done"
        /\ gen[g].info = gen[h].info /\ gen[g].tests = gen[h].tests
        => gen[g].out = gen[h].out

\* The flowables of the pages of g that are closed, in drawing order.
RECURSIVE FlowsOf(_)
FlowsOf(codes) ==
    IF codes = <<>> THEN <<>>
    ELSE SelectSeq(Head(codes), IsFlow) \o FlowsOf(Tail(codes))

CapturedCodes(g) == [i \in 1..Len(StatesOf(g)) |-> StatesOf(g)[i].code]

\* C9: under every interleaving each started generation has a page-state
\* list of its own, and the list, the page count and the page numbers are
\* those of the generation run alone: one state per showPage call of its
\* own, numbered 1, 2, ..., holding its own flowables in order.
C9_Isolated ==
    \A g \in Gens : gen[g].pc # "idle" =>
        LET L == StatesOf(g)
            closed == StoryUnits(gen[g].tests) - gen[g].todo
                      - (IF gen[g].pc = "layout" /\ gen[g].pageOpen
                         THEN FlowCount(cv[g].code) ELSE 0)
            flows == FlowsOf(CapturedCodes(g))
        IN  /\ \A h \in Gens \ {g} : gen[h].pc # "idle" => cv[h].states # cv[g].states
            /\ Len(L) = gen[g].showCalls
            /\ \A k \in 1..Len(L) : L[k].pageNumber = k
            /\ Len(flows) = closed
            /\ \A i \in 1..Len(flows) : flows[i].what = FlowWhat(g, i)
            /\ gen[g].pc \in {"finalizing", "done"} => gen[g].total_pages = gen[g].showCalls
            /\ gen[g].pc = "done" =>
                 \A k \in 1..Len(doc[g]) :
                     PageLines(doc[g][k]) # <<>>
                     /\ PageLines(doc[g][k])[1].what = <<"Page", k, "of", gen[g].showCalls>>

\* Both generations are in flight, each with a captured page, one of them
\* still laying out while the other is in its save loop.
C9_Witness ==
    /\ gen[1].pc = "finalizing" /\ gen[1].idx = 2
    /\ gen[2].pc = "layout" /\ gen[2].showCalls >= 1 /\ gen[2].pageOpen

NoFooterText(code) == \A i \in 1..Len(code) : ~IsFooterText(code[i])

\* C10: while a canvas is collecting, no page is emitted and no page or
\* version text is painted; a showPage call appends exactly one snapshot
\* and starts a fresh page; collecting ends once, after the last page's
\* state is captured, and never resumes.
C10_Collecting ==
    /\ [](\A g \in Gens : gen[g].pc = "layout" =>
            /\ doc[g] = <<>>
            /\ NoFooterText(cv[g].code)
            /\ \A i \in 1..Len(StatesOf(g)) : NoFooterText(StatesOf(g)[i].code))
    /\ [][\A g \in Gens :
            (gen[g].pc = "layout" /\ gen'[g].showCalls # gen[g].showCalls) =>
               /\ lists'[cv[g].states] = Append(lists[cv[g].states], cv[g])
               /\ cv'[g].code = <<>>
               /\ cv'[g].pageNumber = cv[g].pageNumber + 1
               /\ doc'[g] = doc[g]]_vars
    /\ [][\A g \in Gens :
            (gen[g].pc = "layout" /\ gen'[g].pc # "layout") =>
               /\ gen'[g].pc = "finalizing"
               /\ gen[g].todo = 0 /\ ~gen[g].pageOpen
               /\ gen[g].showCalls >= 1
               /\ Len(lists[cv[g].states]) = gen[g].showCalls]_vars
    /\ [][\A g \in Gens :
            gen[g].pc \in {"finalizing", "done"} =>
                gen'[g].pc \in {"finalizing", "done"}]_vars

\* A canvas is collecting with a page captured and the next page open.
C10_Witness ==
    \E g \in Gens : /\ gen[g].pc = "layout" /\ gen[g].showCalls >= 1
                    /\ gen[g].pageOpen /\ cv[g].code # <<>>

\* The pages of g emitted so far are its first n captured states, each with
\* its own contents first and its own page number.
EmittedInOrder(g, n) ==
    /\ Len(doc[g]) = n
    /\ n <= Len(StatesOf(g))
    /\ \A k \in 1..n :
         LET state == StatesOf(g)[k]
             page == doc[g][k]
         IN  /\ Len(page) >= Len(state.code)
             /\ SubSeq(page, 1, Len(state.code)) = state.code
             /\ Len(PageLines(page)) = 1
             /\ PageLines(page)[1].what[2] = state.pageNumber
             /\ state.pageNumber = k

\* C11: once save has started, turn i of its loop emits captured state i and
\* nothing else, so that the emitted pages are always the first captured
\* states, in capture order, each once; no state is captured after save has
\* started; the generation ends only when every captured state is emitted,
\* with as many pages as captured states; and a save that has started ends.
C11_Finalizing ==
    /\ [](\A g \in Gens :
            /\ gen[g].pc = "finalizing" => EmittedInOrder(g, gen[g].idx - 1)
            /\ gen[g].pc = "done" =>
                  /\ EmittedInOrder(g, Len(StatesOf(g)))
                  /\ gen[g].out.pages = doc[g])
    /\ [][\A g \in Gens :
            gen[g].pc \in {"finalizing", "done"} =>
               /\ lists'[cv'[g].states] = lists[cv[g].states]
               /\ Len(doc'[g]) \in {Len(doc[g]), Len(doc[g]) + 1}
               /\ gen'[g].pc = "done" /\ gen[g].pc = "finalizing" =>
                     /\ Len(doc[g]) = Len(StatesOf(g))
                     /\ doc'[g] = doc[g]]_vars
    /\ \A g \in Gens : (gen[g].pc = "finalizing") ~> (gen[g].pc = "done")

\* A save loop has emitted two of its three captured states.
C11_Witness ==
    \E g \in Gens : /\ gen[g].pc = "finalizing" /\ gen[g].idx = 3
                    /\ Len(StatesOf(g)) = 3 /\ Len(doc[g]) = 2

(***************************************************************************)
(* Properties of _fit_col_widths.                                          *)
(***************************************************************************)
SameRatios(W, O) ==
    /\ Len(O) = Len(W)
    /\ \A i, j \in 1..Len(W) : RMul(O[i], W[j]) = RMul(W[i], O[j])

C8_BandsWithinPage ==
    geo.pc = "done" =>
        /\ RLe(RAdd(geo.top, geo.bottom), RInt(PAGE_H))
        /\ RLe(RInt(0), geo.height)
        /\ RLe(RAdd(MARGIN, MARGIN), RInt(PAGE_W))

(***************************************************************************)
(* Properties of _sci_if_needed.                                           *)
(***************************************************************************)
\* Whether out reads [-]d.dE+xx with a leading digit that is not 0.
IsSci1(out) ==
    LET body == IF out # <<>> /\ out[1] = "-" THEN Tail(out) ELSE out
    IN  /\ Len(body) >= 7
        /\ body[1] \in Digits \ {"0"}
        /\ body[2] = "."
        /\ body[3] \in Digits
        /\ body[4] = "E" /\ body[5] = "+"
        /\ \A i \in 6..Len(body) : body[i] \in Digits

\* The number a string of that form denotes.
Sci1Value(out) ==
    LET neg == out[1] = "-"
        body == IF neg THEN Tail(out) ELSE out
        m == 10 * DigitVal(body[1]) + DigitVal(body[3])
        e == DigitsValue(SubSeq(body, 6, Len(body)))
    IN  Rat((IF neg THEN -1 ELSE 1) * m * Pow10(e), 10)

\* Whether out is value rounded to two significant digits: they differ by
\* half a unit of the second digit at most.
IsSci1Of(out, value) ==
    /\ IsSci1(out)
    /\ LET body == IF out[1] = "-" THEN Tail(out) ELSE out
           e == DigitsValue(SubSeq(body, 6, Len(body)))
       IN  RLe(RAbs(RSub(Sci1Value(out), value)), Rat(Pow10(e), 20))

ParsesBig(s) ==
    LET f == ParseFloat(RemoveCommas(s))
    IN  f.ok /\ RLe(RInt(1000), RAbs(f.value))

IsCanonicalDate(out) ==
    /\ Len(out) = 10
    /\ out[5] = "-" /\ out[8] = "-"
    /\ \A i \in {1, 2, 3, 4, 6, 7, 9, 10} : out[i] \in Digits

\* C6: _normalize_date_str never raises; the empty string gives the empty
\* string; a string that does not parse, the parser raising included, is
\* returned unchanged; a string that parses is returned as YYYY-MM-DD, the
\* date the parser found.
C6_NormalizeDate ==
    dat.pc = "done" =>
        /\ ~dat.raised
        /\ dat.s = <<>> => dat.out = <<>>
        /\ dat.parsed.kind \in {"NaT", "raises"} => dat.out = dat.s
        /\ (dat.s # <<>> /\ dat.parsed.kind = "Timestamp") =>
              /\ IsCanonicalDate(dat.out)
              /\ DigitsValue(SubSeq(dat.out, 1, 4)) = dat.parsed.year
              /\ DigitsValue(SubSeq(dat.out, 6, 7)) = dat.parsed.month
              /\ DigitsValue(SubSeq(dat.out, 9, 10)) = dat.parsed.day

\* The parser raised on a string that is not empty, and the string came
\* back.
C6_Witness ==
    /\ dat.pc = "done"
    /\ dat.parsed.kind = "raises"
    /\ dat.s # <<>>
    /\ dat.out = dat.s
    /\ ~dat.raised

(***************************************************************************)
(* Properties of assemble_test_data.                                       *)
(***************************************************************************)
RawEntry(form_values, idx) ==
    [property |-> Get(form_values, <<"property", idx>>),
     test_method |-> Get(form_values, <<"testMethod", idx>>),
     unit |-> Get(form_values, <<"unit", idx>>),
     lower_limit |-> Get(form_values, <<"lowerLimit", idx>>),
     upper_limit |-> Get(form_values, <<"upperLimit", idx>>),
     result |-> Get(form_values, <<"result", idx>>)]

StrippedEntry(form_values, idx) ==
    LET raw == RawEntry(form_values, idx)
    IN  [k \in DOMAIN raw |-> Strip(raw[k])]

\* The rows are those of the groups of included, in increasing order.
RowsAre(tests, included, form_values) ==
    /\ Len(tests) = Cardinality(included)
    /\ \A i \in included :
          LET rank == Cardinality({j \in included : j <= i})
          IN  rank <= Len(tests) /\ tests[rank] = StrippedEntry(form_values, i)

\* C7 as stated: the rows are exactly the groups 1..8 with at least one
\* sub-field that is not the empty string, in increasing order, and there
\* are 8 rows at most.
C7_AssembleAsStated ==
    asm.pc = "assembled" =>
        LET fv == asm.form_values
            included == {i \in 1..8 : AnyValue(RawEntry(fv, i))}
        IN  /\ RowsAre(asm.tests, included, fv)
            /\ Len(asm.tests) <= 8

\* C7 as amended: the rows are exactly the groups 1..8 with at least one
\* sub-field that is not empty once the blanks around it are stripped, in
\* increasing order; a row carries the stripped values, the empty string
\* for a missing or blank sub-field; there are 8 rows at most.
C7_AssembleAmended ==
    asm.pc = "assembled" =>
        LET fv == asm.form_values
            included == {i \in 1..8 : AnyValue(StrippedEntry(fv, i))}
        IN  /\ RowsAre(asm.tests, included, fv)
            /\ Len(asm.tests) <= 8
            /\ \A k \in 1..Len(asm.tests) :
                  \A f \in DOMAIN asm.tests[k] : asm.tests[k][f] = Strip(asm.tests[k][f])

\* Groups 2 and 8 are kept with their values stripped, group 8 as the second
\* row; the groups without any key (1 and 3..7) are left out.
C7_Witness ==
    /\ asm.pc = "assembled"
    /\ Len(asm.tests) = 2
    /\ asm.tests[1].unit = <<"a">>
    /\ asm.tests[2].result = <<"a">>
    /\ Get(asm.form_values, <<"unit", 2>>) = <<" ", "a">>
    /\ Get(asm.form_values, <<"result", 8>>) = <<" ", "a">>
    /\ <<"property", 1>> \notin DOMAIN asm.form_values

(***************************************************************************)
(* Properties of the story.                                                *)
(***************************************************************************)
\* The keys of the value cells of the customer table and of the product
\* table, row by row: the left value, then the right value.
CustomerKeys ==
    << <<"customerName", "accountNumber">>, <<"poNumber", "quoteNumber">>,
       <<"orderDate", "quantityShipped">>, <<"shippedDate", "shippedLocation">> >>

ProductKeys ==
    << <<"itemName", "itemSKU">>, <<"lotNumber", "manufacturingLocation">>,
       <<"manufacturingDate", "testDate">>, <<"expirationDate", "printDate">> >>

InTable(keys, key) == \E i \in 1..Len(keys) : key \in {keys[i][1], keys[i][2]}

ValueCell(cells, keys, key) ==
    LET i == CHOOSE j \in 1..Len(keys) : key \in {keys[j][1], keys[j][2]}
    IN  IF keys[i][1] = key THEN cells[i][2] ELSE cells[i][4]

\* The text rendered for the field of a key
Rendered(key) ==
    IF InTable(CustomerKeys, key)
    THEN ValueCell(story.ci_cells, CustomerKeys, key)
    ELSE ValueCell(story.pi_cells, ProductKeys, key)

\* C12: in the customer table and in the product table the value of a key
\* of DATE_KEYS is rendered date-normalized, the value of every other key
\* is rendered verbatim, and a missing key is rendered as the empty string.
C12_DatesByKey ==
    story.pc = "built" =>
        \A key \in InfoKeys :
            /\ Rendered(key) =
                 IF key \in DATE_KEYS
                 THEN NormalizeWith(story.to_datetime, Get(story.info, key))
                 ELSE Get(story.info, key)
            /\ key \notin DOMAIN story.info => Rendered(key) = EmptyString

====
